---- MODULE Spec2Model ----
(***************************************************************************)
(* A model of model.py: the MLLP client that keeps a per-patient database, *)
(* predicts AKI on every LIMS message, pages on a positive prediction,     *)
(* checkpoints the database to /state/database.pkl and acknowledges every  *)
(* frame.                                                                  *)
(*                                                                         *)
(* Text is modelled as sequences of ASCII code points, bytes as sequences  *)
(* of byte values (0..255); floats that the program parses are modelled by *)
(* the integers denoted by all-digit literals.                             *)
(***************************************************************************)
EXTENDS Integers, Sequences, FiniteSets, TLC

VARIABLES
    env,            \* what the outside world does in this run (files, peer, faults)
    pc,             \* position of the main thread
    attempts,       \* main(): reconnect counter
    database,       \* main(): the in-memory database (dict mrn -> record)
    disk,           \* the file /state/database.pkl
    buffer,         \* main(): the bytes of the frame read last
    message,        \* main(): the decoded frame, {} of no use before decode
    test_point,     \* main(): the feature vector handed to predict
    prediction_num, \* main(): the label the model returned for the frame
    pager,          \* send_message(): its locals (attempts, response)
    metrics,        \* the Prometheus counters
    conn,           \* the MLLP connection: frames read and acks written on it
    sent,           \* frames the peer has sent so far in the run
    signals,        \* SIGTERMs delivered so far in the run
    frame           \* bookkeeping of the frame in progress (what happened to it)

vars == <<env, pc, attempts, database, disk, buffer, message, test_point,
          prediction_num, pager, metrics, conn, sent, signals, frame>>

----------------------------------------------------------------------------
(* Bytes and text *)

MLLP_START_OF_BLOCK == 11
MLLP_END_OF_BLOCK == 28
MLLP_CARRIAGE_RETURN == 13
PIPE == 124
SPACE == 32

\* text literals used by the program, as code points
ADT == <<65, 68, 84>>
A03 == <<65, 48, 51>>
MALE == <<77>>
OK200 == <<50, 48, 48>>

ACK == << <<77, 83, 72, 124, 94, 126, 92, 38, 124, 124, 124, 124, 124,
            50, 48, 50, 52, 48, 49, 50, 57, 48, 57, 51, 56, 51, 55,
            124, 124, 65, 67, 75, 124, 124, 124, 50, 46, 53>>,
          <<77, 83, 65, 124, 65, 65>> >>

IsAscii(bytes) == \A i \in 1..Len(bytes) : bytes[i] < 128

\* buffer[a:b] of Python for 0 <= a and b = Len - k (negative index -k), clamped
Slice(s, a, k) ==
    IF Len(s) - k <= a THEN <<>> ELSE SubSeq(s, a + 1, Len(s) - k)

\* str.split(sep) for a one-character separator: the pieces between the
\* occurrences of sep, always at least one piece
Split(s, sep) ==
    LET at == {i \in 1..Len(s) : s[i] = sep}
        nth(k) == CHOOSE i \in at : Cardinality({j \in at : j < i}) = k - 1
        n == Cardinality(at) + 1
    IN  [k \in 1..n |->
            SubSeq(s, IF k = 1 THEN 1 ELSE nth(k - 1) + 1,
                      IF k = n THEN Len(s) ELSE nth(k) - 1)]

\* sep.join(parts)
RECURSIVE Join(_, _)
Join(parts, sep) ==
    IF Len(parts) = 0 THEN <<>>
    ELSE IF Len(parts) = 1 THEN parts[1]
    ELSE parts[1] \o <<sep>> \o Join(Tail(parts), sep)

\* the `in` operator on str: needle occurs in hay as a substring
Contains(hay, needle) ==
    \E i \in 0..(Len(hay) - Len(needle)) :
        SubSeq(hay, i + 1, i + Len(needle)) = needle

\* as if the slice were buffer[1:-2]
from_mllp_strip_two(buf) ==
    LET body == Slice(buf, 1, 2)
    IN  IF IsAscii(body)
        THEN [ok |-> TRUE, value |-> Split(body, MLLP_CARRIAGE_RETURN)]
        ELSE [ok |-> FALSE, value |-> <<>>]

\* from_mllp: str(buffer[1:-3], "ascii").split("\r"); UnicodeDecodeError on a
\* byte >= 128 in the slice
from_mllp(buf) ==
    LET body == Slice(buf, 1, 3)
    IN  IF IsAscii(body)
        THEN [ok |-> TRUE, value |-> Split(body, MLLP_CARRIAGE_RETURN)]
        ELSE [ok |-> FALSE, value |-> <<>>]

to_mllp(segments) ==
    <<MLLP_START_OF_BLOCK>>
    \o Join(segments, MLLP_CARRIAGE_RETURN) \o <<MLLP_CARRIAGE_RETURN>>
    \o <<MLLP_END_OF_BLOCK, MLLP_CARRIAGE_RETURN>>

----------------------------------------------------------------------------
(* Message Parser: field access, float(), datetime.strptime *)

\* seq[i] of Python (0-based): IndexError when i is out of range
Index(seq, i) ==
    IF i < Len(seq) THEN [ok |-> TRUE, value |-> seq[i + 1]]
    ELSE [ok |-> FALSE, value |-> <<>>]

\* message[k].split("|")[i]
Field(msg, k, i) ==
    IF k < Len(msg) THEN Index(Split(msg[k + 1], PIPE), i)
    ELSE [ok |-> FALSE, value |-> <<>>]

IsDigits(s) == \A i \in 1..Len(s) : s[i] \in 48..57

RECURSIVE DigitsValue(_)
DigitsValue(s) ==
    IF Len(s) = 0 THEN 0
    ELSE 10 * DigitsValue(SubSeq(s, 1, Len(s) - 1)) + (s[Len(s)] - 48)

\* float(s) on the literals the inputs hold: a non-empty all-digit literal denotes
\* its integer; the empty string and a literal with a letter raise ValueError
float(s) ==
    IF Len(s) > 0 /\ IsDigits(s) THEN [ok |-> TRUE, value |-> DigitsValue(s)]
    ELSE [ok |-> FALSE, value |-> 0]

IsLeap(y) == (y % 4 = 0 /\ y % 100 # 0) \/ y % 400 = 0

DaysInMonth(y, m) ==
    IF m = 2 THEN (IF IsLeap(y) THEN 29 ELSE 28)
    ELSE IF m \in {4, 6, 9, 11} THEN 30 ELSE 31

NoDate == [year |-> 0, month |-> 0, day |-> 0]

\* datetime.strptime(s, '%Y%m%d'), and the date part of '%Y%m%d%H%M%S', on
\* full-width literals: ValueError on a non-digit, a wrong length or a field out
\* of range
strptime(s, withTime) ==
    LET n == IF withTime THEN 14 ELSE 8
        num(a, b) == DigitsValue(SubSeq(s, a, b))
        y == num(1, 4)
        m == num(5, 6)
        d == num(7, 8)
        dateOk == y >= 1 /\ m \in 1..12 /\ d >= 1 /\ d <= DaysInMonth(y, m)
        timeOk == withTime =>
                    (num(9, 10) <= 23 /\ num(11, 12) <= 59 /\ num(13, 14) <= 61)
    IN  IF Len(s) = n /\ IsDigits(s) /\ dateOk /\ timeOk
        THEN [ok |-> TRUE, value |-> [year |-> y, month |-> m, day |-> d]]
        ELSE [ok |-> FALSE, value |-> NoDate]

\* current_date.year - dob.year - ((current_date.month, current_date.day) <
\*                                  (dob.month, dob.day))
Age(current_date, dob) ==
    current_date.year - dob.year
    - (IF current_date.month < dob.month
          \/ (current_date.month = dob.month /\ current_date.day < dob.day)
       THEN 1 ELSE 0)

----------------------------------------------------------------------------
(* Patient State Store and Feature Builder *)

EmptyDatabase == <<>>

\* a record seeded from history.csv carries "results" only
CsvRecord(results) == [results |-> results]

FullRecord(results, sex, age) == [results |-> results, sex |-> sex, age |-> age]

HasDemographics(rec) == "sex" \in DOMAIN rec /\ "age" \in DOMAIN rec

\* as if a readmission kept the sex on record
ReadmittedKeepSex(rec, sex, age) ==
    FullRecord(rec.results, IF "sex" \in DOMAIN rec THEN rec.sex ELSE sex, age)

\* as if the age were added to the one on record (`+=` for `=`)
ReadmittedAged(rec, sex, age) ==
    FullRecord(rec.results, sex, (IF "age" \in DOMAIN rec THEN rec.age ELSE 0) + age)

\* as if a new admission replaced the record of a known patient
ReadmittedFresh(rec, sex, age) == FullRecord(<<>>, sex, age)

\* database[mrn]["sex"] = sex; database[mrn]["age"] = age
Readmitted(rec, sex, age) == FullRecord(rec.results, sex, age)

\* as if a discharge removed the patient's record
pas_process_discharge_clears(mrn, msg, db) ==
    LET code == Field(msg, 0, 8)
        stamp == Field(msg, 0, 6)
        birth == Field(msg, 1, 7)
        sexf == Field(msg, 1, 8)
        current_date == strptime(stamp.value, TRUE)
        dob == strptime(birth.value, FALSE)
        age == Age(current_date.value, dob.value)
    IN  IF ~code.ok THEN [error |-> "parse", db |-> db]
        ELSE IF Contains(code.value, A03)
        THEN [error |-> "none", db |-> [m \in DOMAIN db \ {mrn} |-> db[m]]]
        ELSE IF ~(stamp.ok /\ current_date.ok /\ birth.ok /\ dob.ok /\ sexf.ok)
        THEN [error |-> "parse", db |-> db]
        ELSE IF mrn \in DOMAIN db
        THEN [error |-> "none",
              db |-> [db EXCEPT ![mrn] = Readmitted(@, sexf.value, age)]]
        ELSE [error |-> "none",
              db |-> (mrn :> FullRecord(<<>>, sexf.value, age)) @@ db]

\* as if the record of an unseen patient were created before the dates are parsed
pas_process_create_first(mrn, msg, db) ==
    LET code == Field(msg, 0, 8)
        stamp == Field(msg, 0, 6)
        birth == Field(msg, 1, 7)
        sexf == Field(msg, 1, 8)
        current_date == strptime(stamp.value, TRUE)
        dob == strptime(birth.value, FALSE)
        age == Age(current_date.value, dob.value)
        created == IF mrn \in DOMAIN db THEN db ELSE (mrn :> CsvRecord(<<>>)) @@ db
    IN  IF ~code.ok THEN [error |-> "parse", db |-> db]
        ELSE IF Contains(code.value, A03) THEN [error |-> "none", db |-> db]
        ELSE IF ~(stamp.ok /\ current_date.ok /\ birth.ok /\ dob.ok /\ sexf.ok)
        THEN [error |-> "parse", db |-> created]
        ELSE [error |-> "none",
              db |-> [created EXCEPT ![mrn] = Readmitted(@, sexf.value, age)]]

\* pas_process(mrn, message, database): the database afterwards and the
\* exception raised, if any ("parse": IndexError or ValueError of an extraction)
pas_process(mrn, msg, db) ==
    LET code == Field(msg, 0, 8)
        stamp == Field(msg, 0, 6)
        birth == Field(msg, 1, 7)
        sexf == Field(msg, 1, 8)
        current_date == strptime(stamp.value, TRUE)
        dob == strptime(birth.value, FALSE)
        age == Age(current_date.value, dob.value)
    IN  IF ~code.ok THEN [error |-> "parse", db |-> db]
        ELSE IF Contains(code.value, A03) THEN [error |-> "none", db |-> db]
        ELSE IF ~(stamp.ok /\ current_date.ok /\ birth.ok /\ dob.ok /\ sexf.ok)
        THEN [error |-> "parse", db |-> db]
        ELSE IF mrn \in DOMAIN db
        THEN [error |-> "none",
              db |-> [db EXCEPT ![mrn] = Readmitted(@, sexf.value, age)]]
        ELSE [error |-> "none",
              db |-> (mrn :> FullRecord(<<>>, sexf.value, age)) @@ db]

RECURSIVE GCD(_, _)
GCD(a, b) == IF b = 0 THEN a ELSE GCD(b, a % b)

\* a number of the feature vector, as a fraction in lowest terms
Frac(n, d) == LET g == GCD(n, d) IN IF g = 0 THEN <<0, 1>> ELSE <<n \div g, d \div g>>

RECURSIVE Sum(_)
Sum(s) == IF Len(s) = 0 THEN 0 ELSE s[1] + Sum(Tail(s))

\* np.mean
Mean(s) == Frac(Sum(s), Len(s))

NoTestPoint == <<>>

\* as if the means were put after the results
BuildTestPointPadLast(rec) ==
    LET results == rec.results
        n == Len(results)
        asFrac(s) == [i \in 1..Len(s) |-> Frac(s[i], 1)]
        five == IF n >= 5 THEN asFrac(SubSeq(results, n - 4, n))
                ELSE asFrac(results) \o [i \in 1..(5 - n) |-> Mean(results)]
    IN  <<Frac(rec.age, 1), Frac(IF rec.sex = MALE THEN 1 ELSE 0, 1)>> \o five

\* the vector lims_process builds from a record whose results hold the new value
BuildTestPoint(rec) ==
    LET results == rec.results
        n == Len(results)
        asFrac(s) == [i \in 1..Len(s) |-> Frac(s[i], 1)]
        five == IF n >= 5 THEN asFrac(SubSeq(results, n - 4, n))
                ELSE [i \in 1..(5 - n) |-> Mean(results)] \o asFrac(results)
    IN  <<Frac(rec.age, 1), Frac(IF rec.sex = MALE THEN 1 ELSE 0, 1)>> \o five

\* as if the new result were put in front (`insert(0, ...)` for `append`)
lims_process_insert_first(patient_id, msg, db) ==
    LET field == Field(msg, 3, 5)
        newest_test_result == float(field.value)
        appended == [db EXCEPT ![patient_id] =
                        [@ EXCEPT !.results = <<newest_test_result.value>> \o @]]
    IN  IF ~(field.ok /\ newest_test_result.ok)
        THEN [error |-> "parse", db |-> db, test_point |-> NoTestPoint]
        ELSE IF patient_id \notin DOMAIN db
        THEN [error |-> "key", db |-> db, test_point |-> NoTestPoint]
        ELSE IF ~HasDemographics(db[patient_id])
        THEN [error |-> "key", db |-> appended, test_point |-> NoTestPoint]
        ELSE [error |-> "none", db |-> appended,
              test_point |-> BuildTestPoint(appended[patient_id])]

\* lims_process(patient_id, message, database, Bloods): the database afterwards,
\* the vector, and the exception raised, if any ("parse": IndexError or ValueError
\* of the extraction; "key": KeyError of a record or of a field it lacks)
lims_process(patient_id, msg, db) ==
    LET field == Field(msg, 3, 5)
        newest_test_result == float(field.value)
        appended == [db EXCEPT ![patient_id] =
                        [@ EXCEPT !.results = Append(@, newest_test_result.value)]]
    IN  IF ~(field.ok /\ newest_test_result.ok)
        THEN [error |-> "parse", db |-> db, test_point |-> NoTestPoint]
        ELSE IF patient_id \notin DOMAIN db
        THEN [error |-> "key", db |-> db, test_point |-> NoTestPoint]
        ELSE IF ~HasDemographics(db[patient_id])
        THEN [error |-> "key", db |-> appended, test_point |-> NoTestPoint]
        ELSE [error |-> "none", db |-> appended,
              test_point |-> BuildTestPoint(appended[patient_id])]

----------------------------------------------------------------------------
(* The snapshot file: pickle.dump / pickle.load of the database *)

\* as if the dump kept the results only
pickle_dumps_results_only(db) ==
    [keys |-> DOMAIN db,
     results |-> [m \in DOMAIN db |-> db[m].results],
     demographics |-> <<>>]

\* the pickled database: its keys, and per key the values of the fields it has
pickle_dumps(db) ==
    [keys |-> DOMAIN db,
     results |-> [m \in DOMAIN db |-> db[m].results],
     demographics |-> [m \in {k \in DOMAIN db : HasDemographics(db[k])} |->
                          <<db[m].sex, db[m].age>>]]

\* as if the load kept the records with sex and age only
pickle_loads_admitted_only(p) ==
    [m \in DOMAIN p.demographics |->
        FullRecord(p.results[m], p.demographics[m][1], p.demographics[m][2])]

pickle_loads(p) ==
    [m \in p.keys |->
        IF m \in DOMAIN p.demographics
        THEN FullRecord(p.results[m], p.demographics[m][1], p.demographics[m][2])
        ELSE CsvRecord(p.results[m])]

\* /state/database.pkl: absent, opened for writing and not yet complete
\* ("partial"), or holding a whole pickle ("full")
NoFile == [state |-> "absent", data |-> pickle_dumps(EmptyDatabase)]

Truncated == [state |-> "partial", data |-> pickle_dumps(EmptyDatabase)]

Snapshot(db) == [state |-> "full", data |-> pickle_dumps(db)]

\* pickle.load of the file: EOFError on a file that is not a whole pickle
LoadSnapshot(file) ==
    IF file.state = "full" THEN [ok |-> TRUE, db |-> pickle_loads(file.data)]
    ELSE [ok |-> FALSE, db |-> EmptyDatabase]

----------------------------------------------------------------------------
(* The inputs of a run: HL7 messages as the hospital simulator frames them, *)
(* damaged frames, pager responses, and the files read at start             *)

Seg(fields) == Join(fields, PIPE)

MSH == <<77, 83, 72>>
PID == <<80, 73, 68>>
OBR == <<79, 66, 82>>
OBX == <<79, 66, 88>>
ADT_A01 == <<65, 68, 84, 94, 65, 48, 49>>
ADT_A03 == <<65, 68, 84, 94, 65, 48, 51>>
ORU_R01 == <<79, 82, 85, 94, 82, 48, 49>>
ONE == <<49>>

\* "20240102135300", "19870515" (age 36 then), "20010829" (age 22 then)
Stamp == <<50, 48, 50, 52, 48, 49, 48, 50, 49, 51, 53, 51, 48, 48>>
Dob1987 == <<49, 57, 56, 55, 48, 53, 49, 53>>
Dob2001 == <<50, 48, 48, 49, 48, 56, 50, 57>>
\* "1987051x", not a date
DobBad == <<49, 57, 56, 55, 48, 53, 49, 120>>
FEMALE == <<70>>

Mrn1 == <<49>>
Mrn2 == <<50>>
Mrn3 == <<51>>

\* "70", "120", and "abc" which is no number
Val70 == <<55, 48>>
Val120 == <<49, 50, 48>>
ValBad == <<97, 98, 99>>

\* "50" and "60"
Val50 == <<53, 48>>
Val60 == <<54, 48>>

\* MSH|^~\&|||||<stamp>||<code>
MshSeg(stamp, code) ==
    Seg(<<MSH, <<94, 126, 92, 38>>, <<>>, <<>>, <<>>, <<>>, stamp, <<>>, code>>)

\* PID|1||<mrn>||||<dob>|<sex>
PidSeg(mrn, dob, sex) == Seg(<<PID, ONE, <<>>, mrn, <<>>, <<>>, <<>>, dob, sex>>)

Admission(mrn, dob, sex) == <<MshSeg(Stamp, ADT_A01), PidSeg(mrn, dob, sex)>>

Discharge(mrn) == <<MshSeg(Stamp, ADT_A03), Seg(<<PID, ONE, <<>>, mrn>>)>>

\* MSH..ORU^R01 / PID|1||<mrn> / OBR|1||||||<stamp> / OBX|1|SN|CREATININE||<value>
LabResult(mrn, value) ==
    <<MshSeg(Stamp, ORU_R01),
      Seg(<<PID, ONE, <<>>, mrn>>),
      Seg(<<OBR, ONE, <<>>, <<>>, <<>>, <<>>, <<>>, Stamp>>),
      Seg(<<OBX, ONE, <<83, 78>>, <<67, 82, 69, 65, 84>>, <<>>, value>>)>>

\* an admission whose PID segment stops before the sex field
AdmissionNoSex(mrn) ==
    <<MshSeg(Stamp, ADT_A01), Seg(<<PID, ONE, <<>>, mrn, <<>>, <<>>, <<>>, Dob1987>>)>>

\* a lab result without its OBR and OBX segments
LabNoObx(mrn) == <<MshSeg(Stamp, ORU_R01), Seg(<<PID, ONE, <<>>, mrn>>)>>

WellFormed ==
    {Admission(Mrn1, Dob1987, MALE), Admission(Mrn2, Dob2001, FEMALE),
     Admission(Mrn3, Dob2001, MALE),
     Discharge(Mrn1), Discharge(Mrn3),
     LabResult(Mrn1, Val70), LabResult(Mrn1, Val120),
     LabResult(Mrn2, Val70), LabResult(Mrn3, Val70)}

\* messages whose field extraction fails
Unparseable ==
    {Admission(Mrn3, DobBad, MALE), AdmissionNoSex(Mrn3),
     LabResult(Mrn1, ValBad), LabResult(Mrn1, <<>>), LabNoObx(Mrn1)}

\* a frame with its end-of-block byte and final carriage return missing
NoEndOfBlock(segments) == SubSeq(to_mllp(segments), 1, Len(to_mllp(segments)) - 2)

\* a frame with a byte that is not ASCII in its text
NonAscii(segments) == [to_mllp(segments) EXCEPT ![3] = 200]

Damaged ==
    {NoEndOfBlock(Admission(Mrn3, Dob2001, MALE)),
     NoEndOfBlock(LabResult(Mrn1, Val120)),
     NonAscii(Admission(Mrn3, Dob2001, MALE)),
     <<MLLP_START_OF_BLOCK, MLLP_END_OF_BLOCK, MLLP_CARRIAGE_RETURN>>}

AllBuffers == {to_mllp(m) : m \in WellFormed \cup Unparseable} \cup Damaged

\* "HTTP/1.0 200 OK", "HTTP/1.0 500 E", a response without a status, and b""
Http200 == <<72, 84, 84, 80, 47, 49, 46, 48, 32, 50, 48, 48, 32, 79, 75>>
Http500 == <<72, 84, 84, 80, 47, 49, 46, 48, 32, 53, 48, 48, 32, 69>>
HttpNoStatus == <<72, 84, 84, 80>>

AllResponses == {Http200, Http500, HttpNoStatus, <<>>}

\* history.csv after its header, as csv.reader yields it: mrn, then date and
\* result in turn, padded with empty cells
HistoryRows == << <<Mrn2, Stamp, <<49, 48, 48>>, <<>>, <<>> >> >>

\* backup.txt after its two header lines: pairs of MSH and PID lines
BackupLines == Admission(Mrn1, Dob2001, FEMALE)

----------------------------------------------------------------------------
(* Bootstrap: convert_history_to_dictionary and _parse_history_file *)

\* [float(x) for x in row[2:len(row):2] if x != ""]; ValueError on a cell that
\* is no number
RECURSIVE RowResults(_, _)
RowResults(row, i) ==
    IF i > Len(row) THEN [ok |-> TRUE, value |-> <<>>]
    ELSE LET rest == RowResults(row, i + 2)
             x == float(row[i])
         IN  IF row[i] = <<>> THEN rest
             ELSE IF ~x.ok \/ ~rest.ok THEN [ok |-> FALSE, value |-> <<>>]
             ELSE [ok |-> TRUE, value |-> <<x.value>> \o rest.value]

\* the loop over the rows of history.csv: a later row of an mrn replaces an
\* earlier one
RECURSIVE LoadHistory(_, _)
LoadHistory(rows, db) ==
    IF Len(rows) = 0 THEN [ok |-> TRUE, db |-> db]
    ELSE LET row == rows[1]
             results == RowResults(row, 3)
         IN  IF Len(row) = 0 \/ ~results.ok THEN [ok |-> FALSE, db |-> db]
             ELSE LoadHistory(Tail(rows),
                              (row[1] :> CsvRecord(results.value)) @@ db)

\* _parse_history_file: pas_process on every pair of lines, in file order; a last
\* line without its pair ends the loop
RECURSIVE _parse_history_file(_, _)
_parse_history_file(db, lines) ==
    IF Len(lines) < 2 THEN [ok |-> TRUE, db |-> db]
    ELSE LET msg == <<lines[1], lines[2]>>
             mrn == Field(msg, 1, 3)
             applied == pas_process(mrn.value, msg, db)
         IN  IF ~mrn.ok \/ applied.error # "none" THEN [ok |-> FALSE, db |-> db]
             ELSE _parse_history_file(applied.db, SubSeq(lines, 3, Len(lines)))

\* the cold branch of convert_history_to_dictionary, up to the dump
ColdBuild(rows, lines) ==
    LET seeded == LoadHistory(rows, EmptyDatabase)
    IN  IF ~seeded.ok THEN seeded ELSE _parse_history_file(seeded.db, lines)

----------------------------------------------------------------------------
(* The run: what the outside world may do in it *)

max_attempts == 100

\* bounds of the runs: frames the peer sends in a run of each profile, and the
\* connects and pager attempts that fail and the SIGTERMs delivered where the
\* profile has them
MaxFrames == 2
MaxFaultFrames == 1
MaxRetryFrames == 1
MaxConnFail == 1
MaxPageFail == 1
MaxSignals == 1

\* a snapshot left by an earlier run
EarlierDatabase ==
    (Mrn1 :> FullRecord(<<70>>, MALE, 36)) @@ (Mrn2 :> CsvRecord(<<100>>))

RetryBuffers ==
    {to_mllp(Admission(Mrn1, Dob1987, MALE)), to_mllp(LabResult(Mrn1, Val70)),
     to_mllp(LabResult(Mrn1, ValBad)), NonAscii(Admission(Mrn3, Dob2001, MALE))}

\* A run's environment is its profile and whether an earlier run left a
\* snapshot. The profiles: "data" (every message, no fault), "faults" (every
\* message; a connect and a pager attempt may fail, a SIGTERM may arrive),
\* "connects" and "pager" (few messages; connects, or pager attempts, may fail up
\* to the program's cap).
DataEnvs == {[profile |-> "data", warm |-> FALSE], [profile |-> "data", warm |-> TRUE],
             [profile |-> "faults", warm |-> FALSE]}

RetryEnvs == {[profile |-> "connects", warm |-> FALSE],
              [profile |-> "pager", warm |-> TRUE]}

Buffers(e) == IF e.profile \in {"data", "faults"} THEN AllBuffers ELSE RetryBuffers

Responses(e) == AllResponses

Frames(e) ==
    IF e.profile = "data" THEN MaxFrames
    ELSE IF e.profile = "faults" THEN MaxFaultFrames ELSE MaxRetryFrames

ConnFail(e) ==
    IF e.profile = "connects" THEN max_attempts
    ELSE IF e.profile = "faults" THEN MaxConnFail ELSE 0

PageFail(e) ==
    IF e.profile = "pager" THEN max_attempts
    ELSE IF e.profile = "faults" THEN MaxPageFail ELSE 0

Signals(e) == IF e.profile \in {"faults", "pager"} THEN MaxSignals ELSE 0

StartFile(e) == IF e.warm THEN Snapshot(EarlierDatabase) ELSE NoFile

NoPager == [mrn |-> <<>>, attempts |-> 0, bound |-> FALSE, response |-> <<>>]

NoFrame == [error |-> "none", paged |-> 0, predicted |-> FALSE]

NoConn == [open |-> FALSE, reads |-> 0, acks |-> 0]

NoMetrics ==
    [Total_messages_counter |-> 0, Total_numbeer_blood_counter |-> 0,
     Number_positive_counter |-> 0, Number_of_non_200_counter |-> 0]

\* A local is cleared where the program reads its value for the last time:
\* buffer, message and test_point at the end of the frame's try (or at the call
\* of send_message), the locals of send_message at its return. The bookkeeping
\* of a frame is kept until the next read.
NoLocals ==
    /\ buffer' = <<>>
    /\ message' = <<>>
    /\ test_point' = NoTestPoint
    /\ prediction_num' = 0

LocalsUnchanged ==
    UNCHANGED <<buffer, message, test_point, prediction_num, pager, frame>>

InitWith(envs) ==
    /\ env \in envs
    /\ pc = "boot"
    /\ attempts = 0
    /\ database = EmptyDatabase
    /\ disk = StartFile(env)
    /\ buffer = <<>>
    /\ message = <<>>
    /\ test_point = NoTestPoint
    /\ prediction_num = 0
    /\ pager = NoPager
    /\ metrics = NoMetrics
    /\ conn = NoConn
    /\ sent = 0
    /\ signals = 0
    /\ frame = NoFrame

Init == InitWith(DataEnvs)

InitRetry == InitWith(RetryEnvs)

\* as if the loop condition were `attempts <= max_attempts`
LoopHeadInclusive(a) == IF a <= max_attempts THEN "connect" ELSE "Terminated"

\* `while attempts < max_attempts:` of main
LoopHead(a) == IF a < max_attempts THEN "connect" ELSE "Terminated"

----------------------------------------------------------------------------
(* Start: convert_history_to_dictionary *)

\* the file exists: pickle.load, which raises on a file that is not a whole pickle
WarmBoot ==
    /\ pc = "boot"
    /\ disk.state # "absent"
    /\ IF LoadSnapshot(disk).ok
       THEN /\ database' = LoadSnapshot(disk).db
            /\ pc' = LoopHead(attempts)
       ELSE /\ database' = database
            /\ pc' = "crashed"
    /\ UNCHANGED <<env, attempts, disk, metrics, conn, sent, signals>>
    /\ LocalsUnchanged

\* no file: history.csv, then backup.txt, then open the file for the dump; an
\* exception of the build is not caught
ColdBoot ==
    /\ pc = "boot"
    /\ disk.state = "absent"
    /\ LET built == ColdBuild(HistoryRows, BackupLines)
       IN  IF built.ok
           THEN /\ database' = built.db
                /\ disk' = Truncated
                /\ pc' = "bootdump"
           ELSE /\ UNCHANGED <<database, disk>>
                /\ pc' = "crashed"
    /\ UNCHANGED <<env, attempts, metrics, conn, sent, signals>>
    /\ LocalsUnchanged

BootDump ==
    /\ pc = "bootdump"
    /\ disk' = Snapshot(database)
    /\ pc' = LoopHead(attempts)
    /\ UNCHANGED <<env, attempts, database, metrics, conn, sent, signals>>
    /\ LocalsUnchanged

----------------------------------------------------------------------------
(* main: the connection loop *)

Connect ==
    /\ pc = "connect"
    /\ conn' = [open |-> TRUE, reads |-> 0, acks |-> 0]
    /\ pc' = "recv"
    /\ UNCHANGED <<env, attempts, database, disk, metrics, sent, signals>>
    /\ LocalsUnchanged

\* socket.error or socket.timeout of connect: sleep, count, continue
ConnectFail ==
    /\ pc = "connect"
    /\ attempts < ConnFail(env)
    /\ attempts' = attempts + 1
    /\ conn' = NoConn
    /\ pc' = LoopHead(attempts + 1)
    /\ UNCHANGED <<env, database, disk, metrics, sent, signals>>
    /\ LocalsUnchanged

\* recv returns a frame
Recv ==
    /\ pc = "recv"
    /\ sent < Frames(env)
    /\ \E b \in Buffers(env) : buffer' = b
    /\ sent' = sent + 1
    /\ conn' = [conn EXCEPT !.reads = @ + 1]
    /\ pc' = "process"
    /\ frame' = NoFrame
    /\ UNCHANGED <<env, attempts, database, disk, message, test_point,
                   prediction_num, pager, metrics, signals>>

\* recv returns b"": break, the socket is closed, back to the loop condition
RecvClosed ==
    /\ pc = "recv"
    /\ conn' = NoConn
    /\ pc' = LoopHead(attempts)
    /\ UNCHANGED <<env, attempts, database, disk, metrics, sent, signals>>
    /\ frame' = NoFrame
    /\ UNCHANGED <<buffer, message, test_point, prediction_num, pager>>

\* recv raises socket.error or socket.timeout: caught outside the read loop
RecvError ==
    /\ pc = "recv"
    /\ conn' = NoConn
    /\ pc' = LoopHead(attempts)
    /\ UNCHANGED <<env, attempts, database, disk, metrics, sent, signals>>
    /\ frame' = NoFrame
    /\ UNCHANGED <<buffer, message, test_point, prediction_num, pager>>

\* as if an exception of send_message were not caught by the frame's except
AfterTryPagingEscapes(error) ==
    IF error \in {"paging", "response"} THEN "crashed" ELSE "checkpoint"

\* as if the except clause went on with the next read (`except: continue`)
AfterTryContinue(error) == IF error = "none" THEN "checkpoint" ELSE "recv"

\* `except: pass`: whatever the try raised, the loop body goes on with the dump
AfterTry(error) == "checkpoint"

\* as if every prediction paged
AkiDetectedAlways(label) == label >= 0

\* `if prediction_num == 1:`
AkiDetected(label) == label = 1

\* the body of the frame's try from from_mllp to the return of pas_process or
\* lims_process: the exception raised if any, the database, the vector, and
\* the counters incremented on the way
ProcessFrame(buf, db) ==
    LET decoded == from_mllp(buf)
        msg == decoded.value
        code == Field(msg, 0, 8)
        mrn == Field(msg, 1, 3)
        is_PAS == Contains(code.value, ADT)
        pas == pas_process(mrn.value, msg, db)
        lims == lims_process(mrn.value, msg, db)
        out(error, kind, d, tp, counted) ==
            [error |-> error, kind |-> kind, db |-> d, test_point |-> tp,
             counted |-> counted]
    IN  IF ~decoded.ok THEN out("decode", "none", db, NoTestPoint, {})
        ELSE IF ~code.ok \/ ~mrn.ok
        THEN out("parse", "none", db, NoTestPoint, {"Total_messages_counter"})
        ELSE IF is_PAS
        THEN out(pas.error, "pas", pas.db, NoTestPoint, {"Total_messages_counter"})
        ELSE out(lims.error, "lims", lims.db, lims.test_point,
                 {"Total_messages_counter", "Total_numbeer_blood_counter"})

Count(m, counted) == [c \in DOMAIN m |-> IF c \in counted THEN m[c] + 1 ELSE m[c]]

\* the frame's try up to the call of predict (made for a LIMS message only)
Process ==
    /\ pc = "process"
    /\ LET out == ProcessFrame(buffer, database)
       IN  /\ database' = out.db
           /\ metrics' = Count(metrics, out.counted)
           /\ frame' = [frame EXCEPT !.error = out.error]
           /\ IF out.kind = "lims" /\ out.error = "none"
              THEN /\ message' = from_mllp(buffer).value
                   /\ test_point' = out.test_point
                   /\ pc' = "predict"
                   /\ UNCHANGED <<buffer, prediction_num>>
              ELSE /\ NoLocals
                   /\ pc' = AfterTry(out.error)
    /\ UNCHANGED <<env, attempts, disk, pager, conn, sent, signals>>

\* trained_model.predict(test_point)[0]: the model is a collaborator that returns
\* a label or raises; label 1 calls send_message(mrn, ...)
Predict ==
    /\ pc = "predict"
    /\ \/ \E label \in {0, 1} :
            IF AkiDetected(label)
            THEN /\ metrics' = Count(metrics, {"Number_positive_counter"})
                 /\ frame' = [frame EXCEPT !.predicted = TRUE, !.paged = @ + 1]
                 /\ pager' = [NoPager EXCEPT !.mrn = Field(message, 1, 3).value]
                 /\ buffer' = <<>>
                 /\ message' = <<>>
                 /\ test_point' = NoTestPoint
                 /\ prediction_num' = label
                 /\ pc' = "paging"
            ELSE /\ frame' = [frame EXCEPT !.predicted = TRUE]
                 /\ NoLocals
                 /\ pc' = AfterTry("none")
                 /\ UNCHANGED <<metrics, pager>>
       \/ /\ frame' = [frame EXCEPT !.error = "predict"]
          /\ NoLocals
          /\ pc' = AfterTry("predict")
          /\ UNCHANGED <<metrics, pager>>
    /\ UNCHANGED <<env, attempts, database, disk, conn, sent, signals>>

----------------------------------------------------------------------------
(* send_message *)

\* as if the loop condition were `attempts <= max_attempts`
PagerLoopHeadInclusive(a) == IF a <= max_attempts THEN "paging" ELSE "paged"

\* `while attempts < max_attempts:` of send_message
PagerLoopHead(a) == IF a < max_attempts THEN "paging" ELSE "paged"

\* connect, sendall and recv succeed: response is bound, break
PagerResponds ==
    /\ pc = "paging"
    /\ \E r \in Responses(env) :
          pager' = [pager EXCEPT !.bound = TRUE, !.response = r]
    /\ pc' = "paged"
    /\ UNCHANGED <<env, attempts, database, disk, buffer, message, test_point,
                   prediction_num, metrics, conn, sent, signals, frame>>

\* socket.error or socket.timeout in the attempt: count, sleep, loop
PagerFails ==
    /\ pc = "paging"
    /\ pager.attempts < PageFail(env)
    /\ pager' = [pager EXCEPT !.attempts = @ + 1]
    /\ pc' = PagerLoopHead(pager.attempts + 1)
    /\ UNCHANGED <<env, attempts, database, disk, buffer, message, test_point,
                   prediction_num, metrics, conn, sent, signals, frame>>

\* after the loop: response.decode().split(" ")[1] != '200'. UnboundLocalError
\* when no attempt bound response, IndexError when the response has no second
\* word; either leaves send_message and is caught by the frame's except
PagerFinish ==
    /\ pc = "paged"
    /\ LET status == Index(Split(pager.response, SPACE), 1)
       IN  IF ~pager.bound
           THEN /\ frame' = [frame EXCEPT !.error = "paging"]
                /\ UNCHANGED metrics
           ELSE IF ~status.ok
           THEN /\ frame' = [frame EXCEPT !.error = "response"]
                /\ UNCHANGED metrics
           ELSE /\ metrics' = IF status.value # OK200
                              THEN Count(metrics, {"Number_of_non_200_counter"})
                              ELSE metrics
                /\ UNCHANGED frame
    /\ pager' = NoPager
    /\ prediction_num' = 0
    /\ pc' = AfterTry(frame'.error)
    /\ UNCHANGED <<env, attempts, database, disk, buffer, message, test_point,
                   conn, sent, signals>>

----------------------------------------------------------------------------
(* main: checkpoint and acknowledgment *)

\* open("/state/database.pkl", 'wb') truncates the file
OpenSnapshot ==
    /\ pc = "checkpoint"
    /\ disk' = Truncated
    /\ pc' = "dump"
    /\ UNCHANGED <<env, attempts, database, metrics, conn, sent, signals>>
    /\ LocalsUnchanged

\* pickle.dump writes the whole database; the file object is dropped and closed
Dump ==
    /\ pc = "dump"
    /\ disk' = Snapshot(database)
    /\ pc' = "ack"
    /\ UNCHANGED <<env, attempts, database, metrics, conn, sent, signals>>
    /\ LocalsUnchanged

\* the open or the write raises OSError, which is socket.error: caught outside
\* the read loop, the connection is given up
CheckpointError ==
    /\ pc \in {"checkpoint", "dump"}
    /\ conn' = NoConn
    /\ pc' = LoopHead(attempts)
    /\ frame' = NoFrame
    /\ UNCHANGED <<buffer, message, test_point, prediction_num, pager>>
    /\ UNCHANGED <<env, attempts, database, disk, metrics, sent, signals>>

\* s.sendall(to_mllp(ACK))
SendAck ==
    /\ pc = "ack"
    /\ conn' = [conn EXCEPT !.acks = @ + 1]
    /\ pc' = "recv"
    /\ LocalsUnchanged
    /\ UNCHANGED <<env, attempts, database, disk, metrics, sent, signals>>

AckError ==
    /\ pc = "ack"
    /\ conn' = NoConn
    /\ pc' = LoopHead(attempts)
    /\ frame' = NoFrame
    /\ UNCHANGED <<buffer, message, test_point, prediction_num, pager>>
    /\ UNCHANGED <<env, attempts, database, disk, metrics, sent, signals>>

----------------------------------------------------------------------------
(* SIGTERM *)

\* the positions inside the frame's try, whose bare except catches everything
InTry == {"process", "predict", "paging", "paged"}

Running == pc \notin {"Terminated", "crashed"}

\* signal.signal registers sigterm_handler(signum, frame, database); the
\* interpreter calls a handler with (signum, frame), so the call raises TypeError
\* in the main thread before the handler's body runs. Inside the frame's try the
\* bare except swallows it; anywhere else nothing catches it and the process
\* ends with the traceback.
Sigterm ==
    /\ Running
    /\ signals < Signals(env)
    /\ signals' = signals + 1
    /\ IF pc \in InTry
       THEN /\ frame' = [frame EXCEPT !.error = "signal"]
            /\ NoLocals
            /\ pager' = NoPager
            /\ pc' = AfterTry("signal")
            /\ UNCHANGED conn
       ELSE /\ pc' = "crashed"
            /\ conn' = NoConn
            /\ UNCHANGED <<buffer, message, test_point, prediction_num, pager,
                           frame>>
    /\ UNCHANGED <<env, attempts, database, disk, metrics, sent>>

----------------------------------------------------------------------------

Next ==
    \/ WarmBoot \/ ColdBoot \/ BootDump
    \/ Connect \/ ConnectFail
    \/ Recv \/ RecvClosed \/ RecvError
    \/ Process \/ Predict
    \/ PagerResponds \/ PagerFails \/ PagerFinish
    \/ OpenSnapshot \/ Dump \/ CheckpointError
    \/ SendAck \/ AckError
    \/ Sigterm

\* runs rich in messages, with few faults
Spec == Init /\ [][Next]_vars

\* runs with few messages, in which connects and pager attempts may fail up to
\* the program's caps
SpecRetry == InitRetry /\ [][Next]_vars

\* the steps of the connection loop outside a frame: connect() and recv()
\* return or raise
ConnectionStep == Connect \/ ConnectFail \/ Recv \/ RecvClosed \/ RecvError

\* the connection loop does not stop at a connect or at a read
SpecRetryFair == InitRetry /\ [][Next]_vars /\ WF_vars(ConnectionStep)

----------------------------------------------------------------------------
(* The store on its own: the dispatch of main on decoded messages, called on a *)
(* database as the unit tests call pas_process and lims_process                *)

\* calls made in a run of the store
MaxCalls == 2

\* a patient with four results, as after four lab results of the scenario
SeriesDatabase == Mrn1 :> FullRecord(<<10, 20, 30, 40>>, MALE, 22)

StoreDatabases == {EmptyDatabase, EarlierDatabase, SeriesDatabase}

StoreMessages ==
    WellFormed \cup Unparseable
    \cup {Admission(Mrn1, Dob2001, FEMALE),
          LabResult(Mrn1, Val50), LabResult(Mrn1, Val60)}

StoreEnv == [profile |-> "store", warm |-> FALSE]

\* In a run of the store, database is the dict the calls work on, message the
\* message of the last call, test_point what it returned, frame.error what it
\* raised and sent the number of calls.
InitStore ==
    /\ env = StoreEnv
    /\ pc = "store"
    /\ database \in StoreDatabases
    /\ attempts = 0
    /\ disk = NoFile
    /\ buffer = <<>>
    /\ message = <<>>
    /\ test_point = NoTestPoint
    /\ prediction_num = 0
    /\ pager = NoPager
    /\ metrics = NoMetrics
    /\ conn = NoConn
    /\ sent = 0
    /\ signals = 0
    /\ frame = NoFrame

\* is_PAS, mrn and the call of pas_process or lims_process on msg
StoreApply(msg) ==
    LET out == ProcessFrame(to_mllp(msg), database)
    IN  /\ database' = out.db
        /\ message' = msg
        /\ test_point' = out.test_point
        /\ frame' = [NoFrame EXCEPT !.error = out.error]
        /\ sent' = sent + 1
        /\ UNCHANGED <<env, attempts, disk, buffer, prediction_num, pager, metrics,
                       conn, signals>>

StoreCall ==
    /\ pc \in {"store", "called", "repeated"}
    /\ sent < MaxCalls
    /\ \E msg \in StoreMessages : StoreApply(msg)
    /\ pc' = "called"

\* the message of the last call once more
StoreRepeat ==
    /\ pc \in {"called", "repeated"}
    /\ sent < MaxCalls
    /\ StoreApply(message)
    /\ pc' = "repeated"

NextStore == StoreCall \/ StoreRepeat

SpecStore == InitStore /\ [][NextStore]_vars

----------------------------------------------------------------------------
(* The codec on its own: to_mllp and from_mllp called on segments and on    *)
(* bytes, as the unit tests call them                                       *)

\* segments of a message, characters of a segment, bytes of a buffer received
MaxSegments == 2
MaxSegLen == 2
MaxRawLen == 5

SeqsUpTo(S, n) == UNION {[1..k -> S] : k \in 0..n}

\* 'A', '|' and carriage return
CodecChars == {65, PIPE, MLLP_CARRIAGE_RETURN}

\* the non-empty sequences of segments
CodecMessages == SeqsUpTo(SeqsUpTo(CodecChars, MaxSegLen), MaxSegments) \ {<<>>}

\* the framing bytes, 'A' and a byte that is not ASCII
RawBytes == {MLLP_START_OF_BLOCK, MLLP_CARRIAGE_RETURN, MLLP_END_OF_BLOCK, 65, 200}

RawBuffers == SeqsUpTo(RawBytes, MaxRawLen)

CodecEnv == [profile |-> "codec", warm |-> FALSE]

\* In a run of the codec, message is the argument of to_mllp or the value of
\* from_mllp, buffer the bytes, frame.error what from_mllp raised.
InitCodec ==
    /\ env = CodecEnv
    /\ pc = "codec"
    /\ database = EmptyDatabase
    /\ attempts = 0
    /\ disk = NoFile
    /\ buffer = <<>>
    /\ message = <<>>
    /\ test_point = NoTestPoint
    /\ prediction_num = 0
    /\ pager = NoPager
    /\ metrics = NoMetrics
    /\ conn = NoConn
    /\ sent = 0
    /\ signals = 0
    /\ frame = NoFrame

CodecUnchanged ==
    UNCHANGED <<env, attempts, database, disk, test_point, prediction_num, pager,
                metrics, conn, sent, signals>>

\* to_mllp(segments)
Frame ==
    /\ pc = "codec"
    /\ \E segments \in CodecMessages :
          /\ message' = segments
          /\ buffer' = to_mllp(segments)
    /\ pc' = "framed"
    /\ frame' = frame
    /\ CodecUnchanged

\* bytes from elsewhere
Receive ==
    /\ pc = "codec"
    /\ buffer' \in RawBuffers
    /\ pc' = "received"
    /\ UNCHANGED <<message, frame>>
    /\ CodecUnchanged

\* from_mllp(buffer)
Unframe ==
    /\ pc \in {"framed", "received"}
    /\ LET decoded == from_mllp(buffer)
       IN  /\ message' = decoded.value
           /\ frame' = [NoFrame EXCEPT !.error = IF decoded.ok THEN "none" ELSE "decode"]
    /\ pc' = "unframed"
    /\ buffer' = buffer
    /\ CodecUnchanged

NextCodec == Frame \/ Receive \/ Unframe

SpecCodec == InitCodec /\ [][NextCodec]_vars

----------------------------------------------------------------------------
(* The start on its own: a first process that builds the database from the *)
(* files and writes the snapshot, and a second one that finds the snapshot *)

\* rows of history.csv and pairs of lines of backup.txt
MaxRows == 2
MaxPairs == 2

\* rows of history.csv: with one result, two results, none, and one that is no
\* number
HistoryRowSet ==
    { <<Mrn2, Stamp, <<49, 48, 48>>, <<>>, <<>> >>,
      <<Mrn3, Stamp, Val70, Stamp, Val120>>,
      <<Mrn1, Stamp, Val70>>,
      <<Mrn2, <<>>, <<>> >>,
      <<Mrn1, Stamp, ValBad>> }

\* pairs of lines of backup.txt
BackupPairSet ==
    {Admission(Mrn1, Dob2001, FEMALE), Admission(Mrn2, Dob1987, MALE),
     Admission(Mrn3, Dob2001, MALE), Discharge(Mrn2),
     Admission(Mrn3, DobBad, MALE)}

RECURSIVE Lines(_)
Lines(pairs) == IF Len(pairs) = 0 THEN <<>> ELSE pairs[1] \o Lines(Tail(pairs))

BootEnv == [profile |-> "boot", warm |-> FALSE]

InitBoot ==
    /\ env = BootEnv
    /\ pc = "boot"
    /\ database = EmptyDatabase
    /\ attempts = 0
    /\ disk = NoFile
    /\ buffer = <<>>
    /\ message = <<>>
    /\ test_point = NoTestPoint
    /\ prediction_num = 0
    /\ pager = NoPager
    /\ metrics = NoMetrics
    /\ conn = NoConn
    /\ sent = 0
    /\ signals = 0
    /\ frame = NoFrame

\* no file: the cold branch on some history.csv and some backup.txt
ColdStart ==
    /\ pc = "boot"
    /\ disk.state = "absent"
    /\ \E rows \in SeqsUpTo(HistoryRowSet, MaxRows) :
       \E pairs \in SeqsUpTo(BackupPairSet, MaxPairs) :
          LET built == ColdBuild(rows, Lines(pairs))
          IN  IF built.ok
              THEN /\ database' = built.db
                   /\ disk' = Truncated
                   /\ pc' = "bootdump"
              ELSE /\ UNCHANGED <<database, disk>>
                   /\ pc' = "crashed"
    /\ UNCHANGED <<env, attempts, metrics, conn, sent, signals>>
    /\ LocalsUnchanged

\* the process is started again before it read a frame: the file exists, and
\* the database is what pickle.load returns
Restart ==
    /\ pc = "connect"
    /\ disk.state # "absent"
    /\ IF LoadSnapshot(disk).ok
       THEN /\ database' = LoadSnapshot(disk).db
            /\ pc' = "restarted"
       ELSE /\ database' = database
            /\ pc' = "crashed"
    /\ UNCHANGED <<env, attempts, disk, metrics, conn, sent, signals>>
    /\ LocalsUnchanged

NextBoot == ColdStart \/ BootDump \/ Restart

SpecBoot == InitBoot /\ [][NextBoot]_vars

----------------------------------------------------------------------------
(* Properties *)

\* the positions between the read of a frame and its acknowledgment
InFrame == InTry \cup {"checkpoint", "dump", "ack"}

IsPrefix(s, t) == Len(s) <= Len(t) /\ SubSeq(t, 1, Len(s)) = s

\* C1: on a connection, every frame read is answered by exactly one
\* acknowledgment before the next read: whenever the loop is about to read, as
\* many acknowledgments as frames have gone over the connection, and while a
\* frame is in progress exactly one acknowledgment is outstanding, whether the
\* frame was processed or dropped.
AckBeforeNextRead ==
    /\ pc = "recv" => conn.open /\ conn.acks = conn.reads
    /\ pc \in InFrame => conn.open /\ conn.reads = conn.acks + 1

\* two frames were read on one connection, one of them undecodable (it was not
\* counted as a message) and dropped, and both were acknowledged
AckBeforeNextReadWitness ==
    /\ pc = "recv"
    /\ conn.reads = 2 /\ conn.acks = 2
    /\ frame.error = "decode"
    /\ metrics["Total_messages_counter"] = 1

\* C2: when the acknowledgment of a frame is about to be sent the snapshot file
\* holds the whole in-memory database: loading it, as a restart does, yields a
\* database identical to the one in memory.
SnapshotBeforeAck ==
    pc = "ack" => LoadSnapshot(disk) = [ok |-> TRUE, db |-> database]

\* an acknowledgment is due after a frame that admitted a patient unknown at the
\* start and before
SnapshotBeforeAckWitness ==
    /\ pc = "ack"
    /\ frame.error = "none"
    /\ Mrn3 \in DOMAIN database
    /\ HasDemographics(database[Mrn3])

\* C3: no step of the program, whatever the frame and whether it is dropped,
\* removes a patient or shrinks a patient's results: the results before the
\* step are a prefix of the results after it.
ResultsNeverShrink ==
    [][\A m \in DOMAIN database :
          /\ m \in DOMAIN database'
          /\ IsPrefix(database[m].results, database'[m].results)]_vars

\* a patient with one result at the start was admitted again and got a further
\* result
ResultsNeverShrinkWitness ==
    /\ Mrn1 \in DOMAIN database
    /\ database[Mrn1] = FullRecord(<<70, 120>>, MALE, 36)
    /\ metrics["Total_messages_counter"] = 2
    /\ metrics["Total_numbeer_blood_counter"] = 1

\* C4: a frame whose processing fails on field extraction leaves the database as
\* it was, and the loop goes on to the checkpoint and the acknowledgment.
ExtractionFailureChangesNothing ==
    [][(pc = "process" /\ ProcessFrame(buffer, database).error = "parse")
          => (database' = database /\ pc' = "checkpoint")]_vars

\* a frame was dropped on an extraction failure and the loop is at its checkpoint
ExtractionFailureChangesNothingWitness ==
    /\ pc = "checkpoint"
    /\ frame.error = "parse"
    /\ conn.open

\* the positions of the session controller after the start
Session == {"connect", "recv"} \cup InFrame

\* C5: a SIGTERM delivered in any state of the session controller writes the
\* current database to the snapshot file and ends the process.
SigtermCheckpointsAndExits ==
    [][(signals' = signals + 1 /\ pc \in Session)
          => (pc' \in {"Terminated", "crashed"} /\ disk' = Snapshot(database))]_vars

\* C6: the reconnect counter starts at 0, changes only by a failed connect, which
\* adds exactly one, never exceeds max_attempts, and at max_attempts the
\* connection loop is left for good.
ReconnectCounter ==
    /\ attempts = 0
    /\ [](attempts <= max_attempts)
    /\ [](attempts = max_attempts => pc = "Terminated")
    /\ [][attempts' # attempts => (pc = "connect" /\ attempts' = attempts + 1)]_vars
    /\ [][(pc = "connect" /\ pc' \in {"connect", "Terminated"})
             => attempts' = attempts + 1]_vars
    /\ [][pc = "Terminated" => pc' = "Terminated"]_vars

\* the loop was left at the cap, after a connection that succeeded in between
\* and read a frame
ReconnectCounterWitness ==
    /\ pc = "Terminated"
    /\ attempts = max_attempts
    /\ sent = 1

\* C7: a run that keeps coming back to the connect of the loop, which is where
\* every connection-level failure (failed connect, zero-length read, read or
\* write error) leads, reaches Terminated.
FailuresExhaustTheBudget ==
    ([]<>(pc = "connect")) => <>(pc = "Terminated")

\* C8: send_message is entered exactly by the step in which the model returns
\* label 1, which is taken for a LIMS message whose vector was built and which
\* raised nothing; it is entered at most once per frame, inside the frame's try
\* and so before the frame's checkpoint and acknowledgment.
DispatchIffPositiveLab ==
    /\ [](frame.paged <= 1)
    /\ [](pc = "predict" =>
            /\ ~Contains(Field(message, 0, 8).value, ADT)
            /\ Len(test_point) = 7
            /\ frame.error = "none" /\ frame.paged = 0)
    /\ [](pc \in {"paging", "paged"} =>
            frame.paged = 1 /\ frame.error = "none" /\ prediction_num = 1)
    /\ [][(pc' = "paging" /\ pc # "paging")
             <=> (pc = "predict" /\ frame'.predicted /\ prediction_num' = 1)]_vars
    /\ [][frame'.paged # frame.paged
             => (frame'.paged = 0 \/ (pc = "predict" /\ pc' = "paging"))]_vars

\* send_message is running for the frame in progress
DispatchIffPositiveLabWitness ==
    /\ pc = "paging"
    /\ frame.paged = 1
    /\ pager.mrn = Mrn1

Non200 == metrics["Number_of_non_200_counter"]

\* C9: send_message makes an attempt only while fewer than max_attempts have
\* failed and no response has come; an attempt either gets a response, which
\* ends the loop, or fails, which counts one and retries; after the loop a
\* response with a status other than 200 counts one non-200 and nothing else
\* does; every step of send_message leaves it or counts an attempt.
DispatchIsBounded ==
    /\ [](pager.attempts <= max_attempts)
    /\ [](pc = "paging" => pager.attempts < max_attempts /\ ~pager.bound)
    /\ [](pc = "paged" => pager.bound \/ pager.attempts = max_attempts)
    /\ [][pc = "paging" =>
             \/ pc' = "paged" /\ pager'.bound /\ pager'.attempts = pager.attempts
             \/ /\ pager'.attempts = pager.attempts + 1
                /\ ~pager'.bound
                /\ pc' = IF pager'.attempts < max_attempts THEN "paging" ELSE "paged"
             \/ signals' # signals]_vars
    /\ [][(pc = "paged" /\ signals' = signals) =>
             LET status == Index(Split(pager.response, SPACE), 1)
                 counts == pager.bound /\ status.ok /\ status.value # OK200
             IN  /\ pc' = "checkpoint"
                 /\ Non200' = Non200 + (IF counts THEN 1 ELSE 0)]_vars
    /\ [][Non200' # Non200 => pc = "paged"]_vars

\* the hundredth attempt got a response whose status is 500
DispatchIsBoundedWitness ==
    /\ pc = "paged"
    /\ pager.attempts = max_attempts - 1
    /\ pager.bound
    /\ pager.response = Http500

FrameErrors == {"decode", "parse", "key", "predict", "paging", "response"}

\* C10: a step in which the frame's processing raises (in the decode, the
\* parser, the lookup, predict or send_message) keeps the connection and goes
\* on to the checkpoint; from there, as long as the connection is kept, the
\* loop writes the snapshot, acknowledges and reads again.
ErrorsKeepTheReadLoop ==
    /\ [][(frame'.error # frame.error /\ frame'.error \in FrameErrors)
             => (pc' = "checkpoint" /\ conn.open /\ conn' = conn)]_vars
    /\ [][(pc = "checkpoint" /\ conn'.open) => pc' = "dump"]_vars
    /\ [][(pc = "dump" /\ conn'.open) => pc' = "ack"]_vars
    /\ [][(pc = "ack" /\ conn'.open) => pc' = "recv"]_vars

\* send_message gave up after max_attempts failures; the frame was
\* acknowledged and the loop is reading again on the same connection
ErrorsKeepTheReadLoopWitness ==
    /\ pc = "recv"
    /\ frame.error = "paging"
    /\ conn.open /\ conn.reads = 1 /\ conn.acks = 1

\* the byte before the last is not the end-of-block byte
MissingEndOfBlock(buf) == Len(buf) < 2 \/ buf[Len(buf) - 1] # MLLP_END_OF_BLOCK

\* C17: the processing of a frame without its end-of-block marker changes
\* neither the database nor a counter, calls neither predict nor send_message,
\* and goes on to the checkpoint and the acknowledgment.
MalformedFrameDropped ==
    [][(pc = "process" /\ MissingEndOfBlock(buffer))
          => (database' = database /\ metrics' = metrics /\ pc' = "checkpoint")]_vars

\* C21: a snapshot file that holds a whole pickle of a database holds one
\* after every step, also after the open for writing of a checkpoint and before
\* the end of its dump, so that a start after a crash at any point can load it.
SnapshotStaysLoadable == [][LoadSnapshot(disk).ok => LoadSnapshot(disk').ok]_vars

----------------------------------------------------------------------------
(* Properties of the store *)

StoreMrns == {Mrn1, Mrn2, Mrn3}

\* the result literals of the messages and the numbers they denote
LabValues == {<<Val50, 50>>, <<Val60, 60>>, <<Val70, 70>>, <<Val120, 120>>}

\* the dates of birth of the messages and the age on the day of Stamp
KnownAges == {<<Dob1987, 36>>, <<Dob2001, 22>>}

\* a call was made in the step, with msg
Called(msg) == sent' = sent + 1 /\ message' = msg

ResultsBefore(m) == IF m \in DOMAIN database THEN database[m].results ELSE <<>>

\* C11: a lab result with a numeric value for id leaves id with a record whose
\* results are the earlier ones (none, for an id not seen before) followed by
\* the value, whether or not the record carries sex and age.
LabValueAlwaysRecorded ==
    [][\A m \in StoreMrns : \A v \in LabValues :
          Called(LabResult(m, v[1]))
              => /\ m \in DOMAIN database'
                 /\ database'[m].results = ResultsBefore(m) \o <<v[2]>>]_vars

\* C12: an admission that is no discharge, for id, leaves id with the sex of
\* the message, the age on the day of the message and the results id had before
\* (none, for an id not seen before); the other records are the same and no
\* other record appears.
AdmissionSetsDemographics ==
    [][\A m \in StoreMrns : \A d \in KnownAges : \A sex \in {MALE, FEMALE} :
          Called(Admission(m, d[1], sex))
              => /\ DOMAIN database' = DOMAIN database \cup {m}
                 /\ database'[m] = FullRecord(ResultsBefore(m), sex, d[2])
                 /\ \A o \in DOMAIN database \ {m} : database'[o] = database[o]]_vars

\* a male of 36 with a result was admitted again as a female of 22
AdmissionSetsDemographicsWitness ==
    /\ pc = "called" /\ sent = 1
    /\ message = Admission(Mrn1, Dob2001, FEMALE)
    /\ database = (Mrn1 :> FullRecord(<<70>>, FEMALE, 22)) @@ (Mrn2 :> CsvRecord(<<100>>))

IsAdt(msg) == Field(msg, 0, 8).ok /\ Contains(Field(msg, 0, 8).value, ADT)

\* C13: the call of an admission or discharge message that was the message of
\* the call before leaves the database as that call left it.
AdmissionIdempotent ==
    [][(pc' = "repeated" /\ IsAdt(message')) => database' = database]_vars

\* the admission that changed sex and age of a known patient was applied twice
AdmissionIdempotentWitness ==
    /\ pc = "repeated" /\ sent = 2
    /\ message = Admission(Mrn1, Dob2001, FEMALE)
    /\ database = (Mrn1 :> FullRecord(<<70>>, FEMALE, 22)) @@ (Mrn2 :> CsvRecord(<<100>>))

\* C14: a discharge leaves the database as it was, for a patient with a record
\* and for one without.
DischargeChangesNothing ==
    [][\A m \in StoreMrns : Called(Discharge(m)) => database' = database]_vars

\* a patient with a record was discharged
DischargeChangesNothingWitness ==
    /\ pc = "called" /\ sent = 1
    /\ message = Discharge(Mrn1)
    /\ database = EarlierDatabase
    /\ frame.error = "none"

\* C15: the vector returned for a lab result of a patient with sex and age has
\* seven numbers: the age, 1 for sex 'M' and 0 otherwise, and with n the number
\* of results after the append, the last five results in order when n >= 5, and
\* otherwise 5 - n times the mean of the n results followed by the n results.
FeatureVector ==
    (pc \in {"called", "repeated"} /\ frame.error = "none" /\ ~IsAdt(message)) =>
        LET rec == database[Field(message, 1, 3).value]
            n == Len(rec.results)
            s(i) == test_point[2 + i]
        IN  /\ Len(test_point) = 7
            /\ test_point[1] = <<rec.age, 1>>
            /\ test_point[2] = <<IF rec.sex = MALE THEN 1 ELSE 0, 1>>
            /\ \A i \in 1..5 :
                  IF n >= 5 THEN s(i) = <<rec.results[n - 5 + i], 1>>
                  ELSE IF i <= 5 - n
                  THEN s(i)[2] > 0 /\ s(i)[1] * n = Sum(rec.results) * s(i)[2]
                  ELSE s(i) = <<rec.results[i - (5 - n)], 1>>

\* three results 70, 120, 70 of a male of 36: twice their mean 260/3, then they
FeatureVectorWitness ==
    /\ pc = "called" /\ sent = 2
    /\ test_point = << <<36, 1>>, <<1, 1>>, <<260, 3>>, <<260, 3>>,
                       <<70, 1>>, <<120, 1>>, <<70, 1>> >>

\* C20: a lab result for a patient with sex and age leaves the database as it
\* was but for the patient's results, which are the earlier ones followed by
\* the one value of the message.
LabAppendsOne ==
    [][\A m \in StoreMrns : \A v \in LabValues :
          (Called(LabResult(m, v[1])) /\ m \in DOMAIN database
                                       /\ HasDemographics(database[m]))
              => database' = [database EXCEPT ![m] =
                                 FullRecord(database[m].results \o <<v[2]>>,
                                            database[m].sex, database[m].age)]]_vars

\* 120 was added to the results of patient 1, next to the record of patient 2
LabAppendsOneWitness ==
    /\ pc = "called" /\ sent = 1
    /\ message = LabResult(Mrn1, Val120)
    /\ database = (Mrn1 :> FullRecord(<<70, 120>>, MALE, 36)) @@ (Mrn2 :> CsvRecord(<<100>>))

----------------------------------------------------------------------------
(* Properties of the codec *)

\* the bytes of a frame around its text
Framed(buf) ==
    /\ Len(buf) >= 4
    /\ buf[1] = MLLP_START_OF_BLOCK
    /\ SubSeq(buf, Len(buf) - 2, Len(buf))
         = <<MLLP_CARRIAGE_RETURN, MLLP_END_OF_BLOCK, MLLP_CARRIAGE_RETURN>>

\* the segments are the pieces between the carriage returns of the text
TextOf(buf, segments) ==
    LET text == SubSeq(buf, 2, Len(buf) - 3)
        start(k) == IF k = 1 THEN 0 ELSE Len(Join(SubSeq(segments, 1, k - 1),
                                                  MLLP_CARRIAGE_RETURN)) + 1
    IN  /\ Len(text) = Len(Join(segments, MLLP_CARRIAGE_RETURN))
        /\ \A k \in 1..Len(segments) :
              /\ SubSeq(text, start(k) + 1, start(k) + Len(segments[k])) = segments[k]
              /\ k < Len(segments)
                    => text[start(k) + Len(segments[k]) + 1] = MLLP_CARRIAGE_RETURN

HasReturn(segments) ==
    \E k \in 1..Len(segments) : \E i \in 1..Len(segments[k]) :
        segments[k][i] = MLLP_CARRIAGE_RETURN

\* C16: from_mllp of the bytes to_mllp made of a non-empty sequence of ASCII
\* segments raises nothing and returns the segments.
RoundTrip ==
    [][(pc = "framed" /\ pc' = "unframed")
          => (frame'.error = "none" /\ message' = message)]_vars

\* C16, amended: the bytes to_mllp makes are the start-of-block byte, the
\* segments with a carriage return after each, the end-of-block byte and a
\* carriage return; from_mllp of them returns the segments when no segment
\* holds a carriage return.
RoundTripWithoutReturn ==
    /\ [](pc = "framed" => Framed(buffer) /\ TextOf(buffer, message))
    /\ [][(pc = "framed" /\ pc' = "unframed" /\ ~HasReturn(message))
             => (frame'.error = "none" /\ message' = message)]_vars

\* "A|" and "|" went through both
RoundTripWithoutReturnWitness ==
    /\ pc = "unframed"
    /\ buffer = <<11, 65, 124, 13, 124, 13, 28, 13>>
    /\ message = << <<65, 124>>, <<124>> >>
    /\ frame.error = "none"

\* C18: from_mllp raises on every input of fewer than 4 bytes and on every
\* input with a byte that is not ASCII.
ShortOrNonAsciiFails ==
    [][(pc = "received" /\ pc' = "unframed"
          /\ (Len(buffer) < 4 \/ ~IsAscii(buffer)))
          => frame'.error = "decode"]_vars

----------------------------------------------------------------------------
(* Properties of the start *)

\* C19: the database the second process loads from the snapshot of a cold build
\* has the records the cold build made: the same keys, and per key the same
\* results and the same sex and age, or none.
BootstrapEquivalence ==
    [][(pc = "connect" /\ pc' # "connect")
          => (pc' = "restarted" /\ database' = database)]_vars

\* a patient of the CSV was admitted by the backup, another is in the CSV only
\* and a third in the backup only
BootstrapEquivalenceWitness ==
    /\ pc = "restarted"
    /\ database = (Mrn1 :> FullRecord(<<>>, FEMALE, 22))
                  @@ (Mrn2 :> FullRecord(<<100>>, MALE, 36))
                  @@ (Mrn3 :> CsvRecord(<<70, 120>>))

====
